---- MODULE Spec2Model ----
(***************************************************************************)
(* soupchef: breadth-first recipe crawler (src/soupchef.py) with its       *)
(* persistent dedup index (src/index.py).                                  *)
(*                                                                         *)
(* The specifications share one set of variables:                         *)
(*   Spec          - fetch_urls: the orchestrator thread and the pool      *)
(*                   workers running fetch_and_save_url concurrently;      *)
(*   SpecFair      - Spec with every thread scheduled fairly;              *)
(*   SpecInterrupt - Spec with SIGINT arriving at any point;               *)
(*   SpecIndex     - sequential use of one _Index: add / close / reopen;   *)
(*   SpecRate      - concurrent callers of _wait_rate_limit on a discrete  *)
(*                   clock;                                                *)
(*   SpecComments  - one call of fetch_comments paging through the API.    *)
(* Text (identifiers, URLs, the index file) is a sequence of characters,   *)
(* each character a one-element string.                                    *)
(***************************************************************************)
EXTENDS Integers, Sequences, FiniteSets, TLC

(* ------------------------------ bounds -------------------------------- *)
\* number of distinct Identifiers in play
NumIds == 2
\* number of distinct Identifiers added to the Index in SpecIndex
NumIxIds == 3
\* longest seed list handed to fetch_urls
MaxSeeds == 2
\* longest 'related' list the page parser returns
MaxRelated == 1
\* largest -r recursion depth tried
MaxDepth == 1
\* last instant of the discrete clock (SpecRate)
MaxTime == 6
\* clock ticks per second: datetime's microseconds component wraps here
TicksPerSecond == 4
\* largest rate limit tried, in ticks
MaxRate == 2
\* calls of wait() each caller makes (SpecRate)
MaxCalls == 2
\* most pages of comments a recipe has (SpecComments)
MaxPages == 3
\* most full pages of search results the site has (SpecSeeds)
MaxResultPages == 2

(* ------------------------- program constants -------------------------- *)
\* for i in range(10): the retry cap of fetch_url
maxFetchAttempts == 10
\* ThreadPoolExecutor(max_workers=8)
max_workers == 8
\* fetch_comments: offset + 500, offset += 500
PageSize == 500
\* results per search page: (page_number - 1) * 30, len(results) < 30
SearchPageSize == 30

(* ------------------------------- text --------------------------------- *)
NL == "\n"
BOM == "BOM"
Slash == "/"
\* stands for the literal 'https://chefkoch.de/rezepte/'
UrlPrefix == "https://chefkoch.de/rezepte/"
Digits == {"0", "1", "2", "3", "4", "5", "6", "7", "8", "9"}

AllIds == << <<"1">>, <<"1", "2">>, <<"2">>, <<"2", "1">>, <<"3">> >>
Ids == {AllIds[i] : i \in 1..NumIds}
IxIds == {AllIds[i] : i \in 1..NumIxIds}

Range(s) == {s[i] : i \in DOMAIN s}

\* number of occurrences of e in sequence s
Count(s, e) == Cardinality({i \in DOMAIN s : s[i] = e})

\* f'https://chefkoch.de/rezepte/{id}/'
id_to_url(id) == <<UrlPrefix>> \o id \o <<Slash>>

\* length of the run of digits at the start of text
RECURSIVE DigitRun(_)
DigitRun(text) ==
    IF text # <<>> /\ text[1] \in Digits THEN 1 + DigitRun(Tail(text)) ELSE 0

\* re.search(r'rezepte/(\d+)/', url)[1]: the digits between the prefix and
\* the next slash.  Only URLs that match are ever passed in.
url_to_id(url) == SubSeq(url, 2, 1 + DigitRun(Tail(url)))

(* ------------------------------ index --------------------------------- *)
\* a file: does it exist, and its content
NoFile == [exists |-> FALSE, text |-> <<>>]
File(text) == [exists |-> TRUE, text |-> text]

\* position of the first newline of text, 0 if none
RECURSIVE FirstNL(_, _)
FirstNL(text, k) ==
    IF k > Len(text) THEN 0
    ELSE IF text[k] = NL THEN k ELSE FirstNL(text, k + 1)

\* iteration over a text file: the lines, each with its line ending
RECURSIVE SplitLines(_)
SplitLines(text) ==
    IF text = <<>> THEN <<>>
    ELSE LET k == FirstNL(text, 1)
         IN  IF k = 0 THEN <<text>>
             ELSE <<SubSeq(text, 1, k)>> \o SplitLines(SubSeq(text, k + 1, Len(text)))

RECURSIVE LStrip(_)
LStrip(line) ==
    IF line # <<>> /\ line[1] = NL THEN LStrip(Tail(line)) ELSE line

RECURSIVE RStrip(_)
RStrip(line) ==
    IF line # <<>> /\ line[Len(line)] = NL
    THEN RStrip(SubSeq(line, 1, Len(line) - 1)) ELSE line

\* str.strip()
Strip(line) == RStrip(LStrip(line))

\* decoding with 'utf-8-sig': a leading byte-order mark is dropped
DecodeSig(bytes) ==
    IF bytes # <<>> /\ bytes[1] = BOM THEN Tail(bytes) ELSE bytes

\* [line.strip() for line in infile]
ReadIndex(bytes) ==
    LET lines == SplitLines(DecodeSig(bytes))
    IN  [i \in 1..Len(lines) |-> Strip(lines[i])]

\* mutant of AddCheck: the membership test is lost
AddCheckAlways(ix, element) == TRUE

\* element not in self._index
AddCheck(ix, element) == element \notin Range(ix)

\* self._index.append(element)
AddAppend(ix, element) == Append(ix, element)

\* mutant of AddWrite: the line ending is lost
AddWriteNoNewline(h, element) ==
    [buf |-> h.buf \o (IF h.bom THEN <<BOM>> ELSE <<>>) \o element,
     bom |-> FALSE]

\* self._index_file.write(str(element) + '\n') on the 'utf-8-sig' append
\* handle: the encoder emits the byte-order mark before the first text
\* written at the start of an empty file.  h = [buf, bom]
AddWrite(h, element) ==
    [buf |-> h.buf \o (IF h.bom THEN <<BOM>> ELSE <<>>) \o element \o <<NL>>,
     bom |-> FALSE]

\* _Index.add run without interruption, on s = [index, buf, bom]
IndexAdd(s, element) ==
    IF AddCheck(s.index, element)
    THEN LET h == AddWrite([buf |-> s.buf, bom |-> s.bom], element)
         IN  [index |-> AddAppend(s.index, element), buf |-> h.buf, bom |-> h.bom]
    ELSE s

\* _Index.__init__ on file d (NoFile if absent) with the parent
\* directory present or not.  Result: the fields of the new instance and
\* the file system afterwards; raised = os.makedirs failed.
IndexInit(d, dir) ==
    IF d.exists
    THEN [raised |-> FALSE, index |-> ReadIndex(d.text), disk |-> d, dir |-> dir,
          bom |-> (Len(d.text) = 0)]
    ELSE IF dir
         THEN [raised |-> TRUE, index |-> <<>>, disk |-> d, dir |-> dir,
               bom |-> FALSE]
         ELSE [raised |-> FALSE, index |-> <<>>, disk |-> File(<<>>), dir |-> TRUE,
               bom |-> TRUE]

\* the file an earlier run leaves for the Identifiers of log, in order
RECURSIVE LogText(_)
LogText(log) ==
    IF log = <<>> THEN <<>> ELSE log[1] \o <<NL>> \o LogText(Tail(log))

\* the logs earlier runs can leave: Identifiers in any order, none twice
PriorLogs(S) ==
    {l \in UNION {[1..n -> S] : n \in 0..Cardinality(S)} :
        \A i, j \in DOMAIN l : i # j => l[i] # l[j]}

\* index.dat as earlier runs leave it: absent, or (an empty file if nothing
\* was ever added) a byte-order mark followed by one line per Identifier
PriorDisks(S) ==
    {NoFile} \cup
    {File(IF l = <<>> THEN <<>> ELSE <<BOM>> \o LogText(l)) : l \in PriorLogs(S)}

VARIABLES
    \* ---- _Index instance and its file
    index,          \* self._index
    buf,            \* text written to self._index_file and not yet flushed
    bomPending,     \* the encoder still owes the byte-order mark
    closed,         \* self._index_file.closed
    disk,           \* content of index.dat, or NoFile
    dirExists,      \* the output folder exists
    \* ---- fetch_urls
    force_all,      \* args.force_all
    index_only,     \* args.index_only
    recursion_depth,\* args.recursion_depth
    shutdown,       \* _shutdown
    pc,             \* where the orchestrator thread stands
    stack,          \* stack
    li,             \* position of 'level' in stack
    pos,            \* position of 'url' in level
    tasks,          \* the futures submitted to the executor, in order
    workers,        \* workers: <<id, position in tasks>>, in insertion order
    total_fetched,  \* total_fetched
    related_urls,   \* related_urls
    \* ---- rate limiter
    now,            \* the clock, datetime.datetime.now()
    last_request_time, \* _last_request_time
    rate,           \* args.rate_limit: [lo, hi] in ticks
    callers,        \* SpecRate: each caller's position in _wait_rate_limit
    \* ---- fetch_comments
    fc,             \* SpecComments: the locals of one fetch_comments call
    \* ---- fetch_all / fetch_search
    pg,             \* SpecSeeds: the locals of one fetch_all or fetch_search call
    \* ---- history (not program state)
    index0,         \* the Index as opened
    dispatched,     \* number of executor.submit calls so far
    fetchedOk,      \* <<id, level>> of every fetch_url that returned a record
    succeeded,      \* number of fetch_url calls that returned a record
    persisted,      \* Identifiers whose record _write_json wrote
    lastOp,         \* SpecIndex: the last operation applied
    memAtClose,     \* SpecIndex: set of Identifiers in memory at the last close
    closes,         \* times _close_index flushed, fsynced and closed the file
    returns         \* SpecRate: instants at which wait() returned, in order

vars == <<index, buf, bomPending, closed, disk, dirExists, force_all, index_only,
          recursion_depth, shutdown, pc, stack, li, pos, tasks, workers,
          total_fetched, related_urls, now, last_request_time, rate, callers, fc,
          pg,
          index0, dispatched, fetchedOk, succeeded, persisted, lastOp, memAtClose,
          closes, returns>>

indexVars == <<index, buf, bomPending, closed, disk, dirExists>>
crawlVars == <<force_all, index_only, recursion_depth, shutdown, pc, stack, li, pos, tasks,
               workers, total_fetched, related_urls>>
rateVars == <<now, last_request_time, rate, callers>>
crawlHist == <<index0, dispatched, fetchedOk, succeeded, persisted>>
indexHist == <<lastOp, memAtClose, closes>>
rateHist == <<returns>>


(* ------------------------- fetch_url / workers ------------------------ *)
\* data = {}
NoData == [ok |-> FALSE, id |-> <<>>, related |-> <<>>]

\* a future as submitted: fetch_and_save_url(url) not yet started
NewTask(id, url, lvl) ==
    [id |-> id, url |-> url, lvl |-> lvl, pc |-> "queued", resp |-> <<>>,
     gets |-> 0, calls |-> <<>>, r_ok |-> FALSE, data |-> NoData,
     result |-> "pending", cause |-> "none", late |-> FALSE]

\* what the transport answers to the successive GETs of one URL: TRUE is a
\* 2xx status.  p failures, then successes.
Transports ==
    {[i \in 1..maxFetchAttempts |-> i > p] : p \in 0..maxFetchAttempts}

\* lists of Identifiers a parsed page may name as related
RelatedLists == UNION {[1..n -> Ids] : n \in 0..MaxRelated}

\* seed lists: URLs of up to MaxSeeds Identifiers, repeats allowed
SeedLists ==
    UNION {{[k \in 1..n |-> id_to_url(f[k])] : f \in [1..n -> Ids]} : n \in 0..MaxSeeds}

\* the retry loop of fetch_url from iteration i (0-based) on:
\*   for i in range(10): r = requests.get(..); if not r.ok: warn; else: break
\* Result: the number of GETs made and whether the last r is ok.
RECURSIVE RetryFrom(_, _)
RetryFrom(resp, i) ==
    IF ~resp[i + 1]
    THEN IF i + 1 < maxFetchAttempts
         THEN RetryFrom(resp, i + 1)
         ELSE [gets |-> i + 1, ok |-> FALSE]
    ELSE [gets |-> i + 1, ok |-> TRUE]

\* mutant of RetryLoop: the loop lacks its break
RECURSIVE RetryFromNoBreak(_, _)
RetryFromNoBreak(resp, i) ==
    IF i + 1 < maxFetchAttempts
    THEN RetryFromNoBreak(resp, i + 1)
    ELSE [gets |-> i + 1, ok |-> resp[i + 1]]

RetryLoopNoBreak(resp) == RetryFromNoBreak(resp, 0)

RetryLoop(resp) == RetryFrom(resp, 0)

\* fetch_url after the retry loop (lines 249-281).  parsed: the page parser
\* returned a record naming rel; commentsOk: fetch_comments returned.
\*   not r.ok          -> warning, then data["id"] on the empty dict raises
\*   parser raises     -> return data (still {})
\*   fetch_comments raises -> the exception leaves fetch_url
FetchUrlResult(id, r_ok, parsed, rel, commentsOk) ==
    IF ~r_ok THEN [raised |-> TRUE, cause |-> "exhausted", data |-> NoData]
    ELSE IF ~parsed THEN [raised |-> FALSE, cause |-> "parse", data |-> NoData]
    ELSE IF ~commentsOk THEN [raised |-> TRUE, cause |-> "comments", data |-> NoData]
    ELSE [raised |-> FALSE, cause |-> "none",
          data |-> [ok |-> TRUE, id |-> id, related |-> rel]]

\* mutant of ShouldAdd: the worker never adds to the Index
ShouldAddNever(data, sd) == FALSE

\* if data and not _shutdown:
ShouldAdd(data, sd) == data.ok /\ ~sd

\* mutant of WriteJsonRaises: the empty record is written like any other
WriteJsonNeverRaises(data, fsOk) == FALSE

\* _write_json(data): data["title"] on the empty dict raises; otherwise the
\* file system decides.
WriteJsonRaises(data, fsOk) == ~data.ok \/ ~fsOk

\* the outbound calls one pass through lines 242-247 makes: a
\* requests.get per iteration and nothing else
LoopCalls(gets) == [k \in 1..gets |-> "get"]

\* SIGINT was received: SystemExit is on its way, or the process has ended
Interrupted(p) == p \in {"exiting", "exited"}

Running(ts) == Cardinality({i \in DOMAIN ts : ts[i].pc \notin {"queued", "done"}})

\* the executor starts queued futures in submission order, at most
\* max_workers at a time
MayStart(ts, i) ==
    /\ ts[i].pc = "queued"
    /\ \A j \in 1..(i - 1) : ts[j].pc # "queued"
    /\ Running(ts) < max_workers

\* lines 242-247: the retry loop of fetch_url
FetchLoop(i) ==
    /\ i \in DOMAIN tasks
    /\ MayStart(tasks, i)
    /\ \E resp \in Transports :
          LET o == RetryLoop(resp)
          IN  tasks' = [tasks EXCEPT ![i] = [@ EXCEPT !.pc = "loop_done",
                            !.resp = resp, !.gets = o.gets, !.r_ok = o.ok,
                            !.calls = LoopCalls(o.gets)]]
    /\ UNCHANGED <<fc, pg, indexVars, force_all, index_only, recursion_depth, shutdown, pc, stack, li,
                   pos, workers, total_fetched, related_urls, rateVars,
                   crawlHist, indexHist, rateHist>>

\* lines 249-281: the rest of fetch_url; its locals (r, i) end here
FetchParse(i) ==
    /\ i \in DOMAIN tasks
    /\ tasks[i].pc = "loop_done"
    /\ \E parsed \in BOOLEAN, rel \in RelatedLists, commentsOk \in BOOLEAN :
          LET t == tasks[i]
              o == FetchUrlResult(t.id, t.r_ok, parsed, rel, commentsOk)
              u == [t EXCEPT !.resp = <<>>, !.gets = 0, !.calls = <<>>,
                             !.r_ok = FALSE, !.cause = o.cause, !.data = o.data,
                             !.late = Interrupted(pc)]
          IN  /\ tasks' = [tasks EXCEPT ![i] =
                    IF o.raised
                    THEN [u EXCEPT !.pc = "done", !.result = "exception"]
                    ELSE [u EXCEPT !.pc = "save"]]
              /\ fetchedOk' = IF o.data.ok THEN fetchedOk \cup {<<t.id, t.lvl>>}
                              ELSE fetchedOk
              /\ succeeded' = IF o.data.ok THEN succeeded + 1 ELSE succeeded
    /\ UNCHANGED <<fc, pg, indexVars, force_all, index_only, recursion_depth, shutdown, pc, stack, li,
                   pos, workers, total_fetched, related_urls, rateVars,
                   index0, dispatched, persisted, indexHist, rateHist>>

\* line 223 and the membership test of index.add (index.py line 43)
WorkerAddCheck(i) ==
    /\ i \in DOMAIN tasks
    /\ tasks[i].pc = "save"
    /\ tasks' = [tasks EXCEPT ![i].pc =
            IF ShouldAdd(tasks[i].data, shutdown) /\ AddCheck(index, tasks[i].data.id)
            THEN "add_append" ELSE "write"]
    /\ UNCHANGED <<fc, pg, indexVars, force_all, index_only, recursion_depth, shutdown, pc, stack, li,
                   pos, workers, total_fetched, related_urls, rateVars,
                   crawlHist, indexHist, rateHist>>

\* index.py line 44
WorkerAddAppend(i) ==
    /\ i \in DOMAIN tasks
    /\ tasks[i].pc = "add_append"
    /\ index' = AddAppend(index, tasks[i].data.id)
    /\ tasks' = [tasks EXCEPT ![i].pc = "add_write"]
    /\ UNCHANGED <<fc, pg, buf, bomPending, closed, disk, dirExists, force_all, index_only,
                   recursion_depth, shutdown, pc, stack, li, pos, workers,
                   total_fetched, related_urls, rateVars, crawlHist, indexHist,
                   rateHist>>

\* index.py line 45
WorkerAddWrite(i) ==
    /\ i \in DOMAIN tasks
    /\ tasks[i].pc = "add_write"
    /\ IF closed
       THEN \* write on a closed file raises ValueError
            /\ tasks' = [tasks EXCEPT ![i] =
                    [@ EXCEPT !.pc = "done", !.result = "exception",
                              !.cause = "closed"]]
            /\ UNCHANGED <<buf, bomPending>>
       ELSE /\ LET h == AddWrite([buf |-> buf, bom |-> bomPending], tasks[i].data.id)
               IN  /\ buf' = h.buf
                   /\ bomPending' = h.bom
            /\ tasks' = [tasks EXCEPT ![i].pc = "write"]
    /\ UNCHANGED <<fc, pg, index, closed, disk, dirExists, force_all, index_only, recursion_depth,
                   shutdown, pc, stack, li, pos, workers, total_fetched,
                   related_urls, rateVars, crawlHist, indexHist, rateHist>>

\* lines 226-229: _write_json unless shutting down, then return data
WorkerWriteJson(i) ==
    /\ i \in DOMAIN tasks
    /\ tasks[i].pc = "write"
    /\ \E fsOk \in BOOLEAN :
          LET t == tasks[i]
          IN  IF shutdown
              THEN /\ tasks' = [tasks EXCEPT ![i] =
                          [t EXCEPT !.pc = "done", !.result = "data"]]
                   /\ persisted' = persisted
              ELSE IF WriteJsonRaises(t.data, fsOk)
              THEN /\ tasks' = [tasks EXCEPT ![i] =
                          [t EXCEPT !.pc = "done", !.result = "exception",
                                    !.cause = IF t.data.ok THEN "persist" ELSE t.cause]]
                   /\ persisted' = persisted
              ELSE /\ tasks' = [tasks EXCEPT ![i] =
                          [t EXCEPT !.pc = "done", !.result = "data"]]
                   /\ persisted' = persisted \cup {t.data.id}
    /\ UNCHANGED <<fc, pg, indexVars, force_all, index_only, recursion_depth, shutdown, pc, stack, li,
                   pos, workers, total_fetched, related_urls, rateVars,
                   index0, dispatched, fetchedOk, succeeded, indexHist, rateHist>>

(* ----------------------------- fetch_urls ----------------------------- *)
\* _close_index, index.py lines 50-55: flush, fsync and close unless closed
\* already
close_index ==
    IF ~closed
    THEN /\ disk' = File(disk.text \o buf)
         /\ buf' = <<>>
         /\ closed' = TRUE
         /\ closes' = closes + 1
    ELSE UNCHANGED <<disk, buf, closed, closes>>

\* workers[id] = future: a new key goes last, a known key keeps its place
DictSet(d, key, val) ==
    IF \E k \in DOMAIN d : d[k][1] = key
    THEN [k \in DOMAIN d |-> IF d[k][1] = key THEN <<key, val>> ELSE d[k]]
    ELSE Append(d, <<key, val>>)

\* mutant of ShouldFetch: the Index is not consulted
ShouldFetchNoIndexCheck(fa, ix, id) == TRUE

\* if args.force_all or id not in index:
ShouldFetch(fa, ix, id) == fa \/ id \notin Range(ix)

\* mutant of ExecutorDrained: shutdown(wait=False)
ExecutorDrainedNoWait(ts) == TRUE

\* leaving the 'with ThreadPoolExecutor' block: shutdown(wait=True)
ExecutorDrained(ts) == \A i \in DOMAIN ts : ts[i].pc = "done"

\* [id_to_url(x) for x in data['related']]
RelatedUrls(rel) == [k \in DOMAIN rel |-> id_to_url(rel[k])]

\* lines 201-206 from entry k of workers on; acc = [raised, total, related]
RECURSIVE Collect(_, _, _, _)
Collect(ws, ts, k, acc) ==
    IF k > Len(ws) THEN acc
    ELSE LET t == ts[ws[k][2]]
         IN  IF t.result = "exception" THEN [acc EXCEPT !.raised = TRUE]
             ELSE IF t.data.ok
             THEN Collect(ws, ts, k + 1,
                          [acc EXCEPT !.total = @ + 1,
                                      !.related = @ \o RelatedUrls(t.data.related)])
             ELSE Collect(ws, ts, k + 1, acc)

\* mutant of ShouldExpand: the related list is not looked at
ShouldExpandAnyway(st, depth, rel) == Len(st) <= depth

\* mutant of ShouldExpand: one level too many
ShouldExpandOneMore(st, depth, rel) == Len(st) <= depth + 1 /\ Len(rel) > 0

\* if len(stack) <= args.recursion_depth and len(related_urls) > 0:
ShouldExpand(st, depth, rel) == Len(st) <= depth /\ Len(rel) > 0

\* lines 188-199: one iteration of 'for url in level'
DispatchUrl ==
    /\ pc = "dispatch"
    /\ pos <= Len(stack[li])
    /\ LET url == stack[li][pos]
           id == url_to_id(url)
       IN  IF ShouldFetch(force_all, index, id)
           THEN /\ last_request_time' = now
                /\ tasks' = Append(tasks, NewTask(id, url, li))
                /\ workers' = DictSet(workers, id, Len(tasks) + 1)
                /\ dispatched' = dispatched + 1
           ELSE UNCHANGED <<last_request_time, tasks, workers, dispatched>>
    /\ pos' = pos + 1
    /\ UNCHANGED <<fc, pg, indexVars, force_all, index_only, recursion_depth, shutdown, pc, stack, li,
                   total_fetched, related_urls, now, rate, callers, index0,
                   fetchedOk, succeeded, persisted, indexHist, rateHist>>

\* end of the 'with' block (line 199/200): wait for every future
ExecutorExit ==
    /\ pc = "dispatch"
    /\ pos > Len(stack[li])
    /\ ExecutorDrained(tasks)
    /\ pc' = "collect"
    /\ UNCHANGED <<fc, pg, indexVars, force_all, index_only, recursion_depth, shutdown, stack, li, pos,
                   tasks, workers, total_fetched, related_urls, rateVars,
                   crawlHist, indexHist, rateHist>>

\* lines 201-206: worker.result() of every entry of workers
CollectResults ==
    /\ pc = "collect"
    /\ LET r == Collect(workers, tasks, 1,
                        [raised |-> FALSE, total |-> total_fetched, related |-> <<>>])
       IN  IF r.raised
           THEN /\ pc' = "crashed"
                /\ UNCHANGED <<total_fetched, related_urls>>
           ELSE /\ pc' = "level_done"
                /\ total_fetched' = r.total
                /\ related_urls' = r.related
    /\ UNCHANGED <<fc, pg, indexVars, force_all, index_only, recursion_depth, shutdown, stack, li, pos,
                   tasks, workers, rateVars, crawlHist, indexHist, rateHist>>

\* lines 208-211 and the next step of 'for level in stack'
LevelDone ==
    /\ pc = "level_done"
    /\ stack' = IF ShouldExpand(stack, recursion_depth, related_urls)
                THEN Append(stack, related_urls) ELSE stack
    /\ IF li < Len(stack')
       THEN /\ pc' = "dispatch"
            /\ li' = li + 1
       ELSE /\ pc' = "terminal"
            /\ li' = li
    /\ pos' = 1
    /\ tasks' = SelectSeq(tasks, LAMBDA t : t.pc # "done")
    /\ workers' = <<>>
    /\ related_urls' = <<>>
    /\ UNCHANGED <<fc, pg, indexVars, force_all, index_only, recursion_depth, shutdown, total_fetched,
                   rateVars, crawlHist, indexHist, rateHist>>

\* lines 172-173: one iteration of 'for url in urls: index.add(url_to_id(url))'
\* of the index-only branch; urls is stack[1]
IndexOnlyAdd ==
    /\ pc = "index_only"
    /\ pos <= Len(stack[1])
    /\ LET s == IndexAdd([index |-> index, buf |-> buf, bom |-> bomPending],
                         url_to_id(stack[1][pos]))
       IN  /\ index' = s.index
           /\ buf' = s.buf
           /\ bomPending' = s.bom
    /\ pos' = pos + 1
    /\ UNCHANGED <<fc, pg, closed, disk, dirExists, force_all, index_only,
                   recursion_depth, shutdown, pc, stack, li, tasks, workers,
                   total_fetched, related_urls, rateVars, crawlHist, indexHist,
                   rateHist>>

\* line 174: return
IndexOnlyReturn ==
    /\ pc = "index_only"
    /\ pos > Len(stack[1])
    /\ pc' = "terminal"
    /\ UNCHANGED <<fc, pg, indexVars, force_all, index_only, recursion_depth, shutdown,
                   stack, li, pos, tasks, workers, total_fetched, related_urls,
                   rateVars, crawlHist, indexHist, rateHist>>

\* mutant of EntryPoint: args.index_only is ignored
EntryPointAlwaysCrawl(io) == "dispatch"

\* line 170: if args.index_only
EntryPoint(io) == IF io THEN "index_only" ELSE "dispatch"

\* no call is in progress
NoCall == [pc |-> "idle"]

NoOp == [op |-> "none", arg |-> <<>>, had |-> FALSE, pre |-> <<>>]

\* the variables a specification does not use
CrawlIdle ==
    /\ force_all = FALSE
    /\ index_only = FALSE
    /\ recursion_depth = 0
    /\ shutdown = FALSE
    /\ pc = "idle"
    /\ stack = <<>>
    /\ li = 1
    /\ pos = 1
    /\ tasks = <<>>
    /\ workers = <<>>
    /\ total_fetched = 0
    /\ related_urls = <<>>
    /\ dispatched = 0
    /\ fetchedOk = {}
    /\ succeeded = 0
    /\ persisted = {}

RateIdle ==
    /\ now = 0
    /\ last_request_time = 0
    /\ rate = [lo |-> 0, hi |-> 0]
    /\ callers = <<>>
    /\ returns = <<>>

CommentsIdle == fc = NoCall

SeedsIdle == pg = NoCall

IndexHistIdle ==
    /\ lastOp = NoOp
    /\ memAtClose = {}
    /\ closes = 0

\* open_index(path) in a fresh process: _Index(path) on the file d
IndexOpened(d) ==
    LET o == IndexInit(d, d.exists)
    IN  /\ index = o.index
        /\ buf = <<>>
        /\ bomPending = o.bom
        /\ closed = FALSE
        /\ disk = o.disk
        /\ dirExists = o.dir
        /\ index0 = o.index

\* main: open_index, then fetch_urls(seeds): the index-only branch, or the
\* crawl entered with stack = [urls]
Init ==
    /\ \E d \in PriorDisks(Ids) : IndexOpened(d)
    /\ force_all \in BOOLEAN
    /\ index_only \in BOOLEAN
    /\ recursion_depth \in 0..MaxDepth
    /\ shutdown = FALSE
    /\ pc = EntryPoint(index_only)
    /\ \E seeds \in SeedLists : stack = <<seeds>>
    /\ li = 1
    /\ pos = 1
    /\ tasks = <<>>
    /\ workers = <<>>
    /\ total_fetched = 0
    /\ related_urls = <<>>
    /\ dispatched = 0
    /\ fetchedOk = {}
    /\ succeeded = 0
    /\ persisted = {}
    /\ RateIdle
    /\ CommentsIdle
    /\ SeedsIdle
    /\ IndexHistIdle

Next ==
    \/ IndexOnlyAdd
    \/ IndexOnlyReturn
    \/ DispatchUrl
    \/ ExecutorExit
    \/ CollectResults
    \/ LevelDone
    \/ \E i \in DOMAIN tasks : FetchLoop(i)
    \/ \E i \in DOMAIN tasks : FetchParse(i)
    \/ \E i \in DOMAIN tasks : WorkerAddCheck(i)
    \/ \E i \in DOMAIN tasks : WorkerAddAppend(i)
    \/ \E i \in DOMAIN tasks : WorkerAddWrite(i)
    \/ \E i \in DOMAIN tasks : WorkerWriteJson(i)

Spec == Init /\ [][Next]_vars

\* every thread that can take a step eventually takes one
SpecFair == Spec /\ WF_vars(Next)

(* ------------- SpecInterrupt: the crawl with SIGINT arriving ----------- *)
\* SIGINT while fetch_urls runs.  The handler in force is the one installed
\* last: main installs soupchef's _sigint_handler (line 683) and open_index
\* (line 778) then installs _Index._sigint_handler (index.py line 85), which
\* closes the index file and calls sys.exit(0).  _shutdown is not touched.
\* SystemExit unwinds the main thread; the pool's threads are joined before
\* the process ends, so submitted futures still run.
Sigint ==
    /\ pc \in {"index_only", "dispatch", "collect", "level_done", "exiting"}
    /\ close_index
    /\ pc' = "exiting"
    /\ UNCHANGED <<fc, pg, index, bomPending, dirExists, force_all, index_only,
                   recursion_depth, shutdown, stack, li, pos, tasks, workers,
                   total_fetched, related_urls, rateVars, crawlHist, lastOp,
                   memAtClose, rateHist>>

\* the interpreter ends once SystemExit has unwound and the pool is joined
ProcessExit ==
    /\ pc = "exiting"
    /\ ExecutorDrained(tasks)
    /\ pc' = "exited"
    /\ UNCHANGED <<fc, pg, indexVars, force_all, index_only, recursion_depth, shutdown,
                   stack, li, pos, tasks, workers, total_fetched, related_urls,
                   rateVars, crawlHist, indexHist, rateHist>>

NextInterrupt ==
    \/ Next
    \/ Sigint
    \/ ProcessExit

SpecInterrupt == Init /\ [][NextInterrupt]_vars

(* ---------------- SpecIndex: one _Index used sequentially -------------- *)
IxState == [index |-> index, buf |-> buf, bom |-> bomPending, disk |-> disk]

\* index.add(x), lines 43-45, while the file is open
IxAdd(x) ==
    /\ ~closed
    /\ LET s == IndexAdd([index |-> index, buf |-> buf, bom |-> bomPending], x)
       IN  /\ index' = s.index
           /\ buf' = s.buf
           /\ bomPending' = s.bom
    /\ lastOp' = [op |-> "add", arg |-> x, had |-> x \in Range(index), pre |-> IxState]
    /\ UNCHANGED <<fc, pg, closed, disk, dirExists, crawlVars, rateVars, crawlHist,
                   memAtClose, closes, rateHist>>

\* index.close() of a sequential client: _close_index on the open instance
CloseIndex ==
    /\ lastOp.op # "open_raised"
    /\ close_index
    /\ memAtClose' = Range(index)
    /\ lastOp' = [op |-> "close", arg |-> <<>>, had |-> closed, pre |-> <<>>]
    /\ UNCHANGED <<fc, pg, index, bomPending, dirExists, crawlVars, rateVars, crawlHist,
                   rateHist>>

\* the next run: _Index.__init__ on the same path, lines 73-86
Reopen ==
    /\ closed
    /\ LET o == IndexInit(disk, dirExists)
       IN  /\ ~o.raised
           /\ index' = o.index
           /\ bomPending' = o.bom
           /\ disk' = o.disk
           /\ dirExists' = o.dir
    /\ buf' = <<>>
    /\ closed' = FALSE
    /\ closes' = 0
    /\ lastOp' = [op |-> "reopen", arg |-> <<>>, had |-> FALSE, pre |-> <<>>]
    /\ UNCHANGED <<fc, pg, crawlVars, rateVars, crawlHist, memAtClose, rateHist>>

\* open_index(path) in a fresh process, the output folder present or not.
\* When __init__ raises there is no instance and no file handle.
IndexOpenedIn(d, dir) ==
    LET o == IndexInit(d, dir)
    IN  /\ index = o.index
        /\ buf = <<>>
        /\ bomPending = o.bom
        /\ closed = o.raised
        /\ disk = o.disk
        /\ dirExists = o.dir
        /\ index0 = o.index
        /\ lastOp = IF o.raised THEN [NoOp EXCEPT !.op = "open_raised"] ELSE NoOp

\* the file systems a run can start on: a file lies in an existing folder
StartFiles(S) ==
    {fs \in [disk : PriorDisks(S), dir : BOOLEAN] : fs.disk.exists => fs.dir}

InitIndex ==
    /\ \E fs \in StartFiles(IxIds) : IndexOpenedIn(fs.disk, fs.dir)
    /\ CrawlIdle
    /\ RateIdle
    /\ CommentsIdle
    /\ SeedsIdle
    /\ memAtClose = {}
    /\ closes = 0

NextIndex ==
    \/ \E x \in IxIds : IxAdd(x)
    \/ CloseIndex
    \/ Reopen

SpecIndex == InitIndex /\ [][NextIndex]_vars

(* --------- SpecRate: concurrent callers of _wait_rate_limit ----------- *)
\* the threads that call _wait_rate_limit: the dispatching thread
\* (fetch_urls line 191) and a pool worker paging comments (line 441)
Callers == {"dispatcher", "worker"}

\* timedelta.microseconds: the sub-second component only
Microseconds(delta) == delta % TicksPerSecond

\* _wait_time(): the fixed limit, or randint over the range
WaitTimes(r) == r.lo..r.hi

\* lines 96-100 for a caller reading the clock at t: the sleep it decides on
SleepTime(rate_limit, t, last) ==
    LET time_diff == Microseconds(t - last)
    IN  IF time_diff < rate_limit THEN rate_limit - time_diff ELSE 0

\* lines 96-99: draw the limit, read clock and _last_request_time
WaitEnter(c) ==
    /\ callers[c].pc = "idle"
    /\ callers[c].calls < MaxCalls
    /\ \E rl \in WaitTimes(rate) :
          LET st == SleepTime(rl, now, last_request_time)
          IN  callers' = [callers EXCEPT ![c] =
                  [@ EXCEPT !.pc = IF st > 0 THEN "sleeping" ELSE "update",
                            !.wake = now + st]]
    /\ UNCHANGED <<fc, pg, indexVars, crawlVars, now, last_request_time, rate, crawlHist,
                   indexHist, rateHist>>

\* line 102: sleep(sleep_time) returns once the time has passed
WaitWake(c) ==
    /\ callers[c].pc = "sleeping"
    /\ now >= callers[c].wake
    /\ callers' = [callers EXCEPT ![c].pc = "update"]
    /\ UNCHANGED <<fc, pg, indexVars, crawlVars, now, last_request_time, rate, crawlHist,
                   indexHist, rateHist>>

\* line 104: _last_request_time = now(); wait() returns
WaitUpdate(c) ==
    /\ callers[c].pc = "update"
    /\ last_request_time' = now
    /\ returns' = Append(returns, now)
    /\ callers' = [callers EXCEPT ![c] =
            [@ EXCEPT !.pc = "idle", !.wake = 0, !.calls = @ + 1]]
    /\ UNCHANGED <<fc, pg, indexVars, crawlVars, now, rate, crawlHist, indexHist>>

\* the clock advances
Tick ==
    /\ now < MaxTime
    /\ now' = now + 1
    /\ UNCHANGED <<fc, pg, indexVars, crawlVars, last_request_time, rate, callers,
                   crawlHist, indexHist, rateHist>>

InitRate ==
    /\ \E d \in {NoFile} : IndexOpened(d)
    /\ CrawlIdle
    /\ CommentsIdle
    /\ SeedsIdle
    /\ IndexHistIdle
    /\ now = 0
    /\ last_request_time = 0
    /\ \E lo \in 0..MaxRate, hi \in 0..MaxRate :
          /\ lo <= hi
          /\ rate = [lo |-> lo, hi |-> hi]
    /\ callers = [c \in Callers |-> [pc |-> "idle", wake |-> 0, calls |-> 0]]
    /\ returns = <<>>

NextRate ==
    \/ \E c \in Callers : WaitEnter(c)
    \/ \E c \in Callers : WaitWake(c)
    \/ \E c \in Callers : WaitUpdate(c)
    \/ Tick

SpecRate == InitRate /\ [][NextRate]_vars


(* ------------ SpecComments: one call of fetch_comments ---------------- *)
\* totals the comments API may declare: whole pages, or a last page of 200
Totals == {p * PageSize + r : p \in 0..(MaxPages - 1), r \in {0, 200, PageSize}}

\* the page the API serves at offset o of a recipe with total comments:
\* 'count' is the total, 'results' holds n items
ServedPage(total, o) ==
    [offset |-> o, count |-> total,
     n |-> IF total - o >= PageSize THEN PageSize
           ELSE IF total > o THEN total - o ELSE 0]

\* values of -c: 0 (none), -1 (the default, all) or a positive limit
CommentNums == {0, -1, 1, 200}

\* lines 423-426: with num > 0 the request carries limit=num and the API
\* serves at most num items per response; otherwise a whole page
Served(num, total, o) ==
    LET page == ServedPage(total, o)
    IN  IF num > 0 /\ page.n > num THEN [page EXCEPT !.n = num] ELSE page

\* the outbound calls of one pass through lines 436-447: _wait_rate_limit,
\* then requests.get, per iteration
CommentLoopCalls(gets) ==
    [k \in 1..(2 * gets) |-> IF k % 2 = 1 THEN "wait" ELSE "get"]

\* mutant of AfterPage: a failed page discards the pages read so far
AfterPageDropsEarlier(loc, r_ok, isJson, page) ==
    IF r_ok /\ isJson
    THEN [bound |-> TRUE, json_data |-> page,
          json_pages |-> Append(loc.json_pages, page)]
    ELSE [loc EXCEPT !.json_pages = <<>>]

\* lines 449-456 on loc = [bound, json_data, json_pages]: a page that came
\* with a 2xx status and parses as JSON is bound to json_data and appended;
\* otherwise the locals stay (json_data unbound if never assigned)
AfterPage(loc, r_ok, isJson, page) ==
    IF r_ok /\ isJson
    THEN [bound |-> TRUE, json_data |-> page,
          json_pages |-> Append(loc.json_pages, page)]
    ELSE loc

\* lines 465-485: the comments of every page of json_pages, in order; the
\* items of one page are kept together as [offset, n]
Extract(json_pages) ==
    [k \in DOMAIN json_pages |->
        [offset |-> json_pages[k].offset, n |-> json_pages[k].n]]

\* lines 420-433: fetch_comments(id) entered; num = 0 returns [] at once
CommentsEnter(num, total) ==
    [pc |-> IF num = 0 THEN "done" ELSE "page", num |-> num, total |-> total,
     offset |-> 0, total_count |-> 0, bound |-> FALSE,
     json_data |-> ServedPage(0, 0), json_pages |-> <<>>, comments |-> <<>>,
     calls |-> <<>>, fetched |-> <<>>]

\* lines 435-463: one iteration of 'while True'
CommentsPage ==
    /\ fc.pc = "page"
    /\ \E resp \in Transports, isJson \in BOOLEAN :
          LET o == RetryLoop(resp)
              loc == AfterPage([bound |-> fc.bound, json_data |-> fc.json_data,
                                json_pages |-> fc.json_pages],
                               o.ok, isJson,
                               Served(fc.num, fc.total, fc.offset))
              g == [fc EXCEPT !.bound = loc.bound, !.json_data = loc.json_data,
                              !.json_pages = loc.json_pages,
                              !.calls = CommentLoopCalls(o.gets),
                              !.fetched = Append(@, [offset |-> fc.offset,
                                                     r_ok |-> o.ok,
                                                     ok |-> o.ok /\ isJson])]
          IN  fc' = IF ~loc.bound
                    THEN \* line 458: json_data is unbound, UnboundLocalError
                         [g EXCEPT !.pc = "raised"]
                    ELSE IF fc.offset + PageSize >= loc.json_data.count
                    THEN [g EXCEPT !.total_count = loc.json_data.count,
                                   !.pc = "extract"]
                    ELSE [g EXCEPT !.total_count = loc.json_data.count,
                                   !.offset = @ + PageSize]
    /\ UNCHANGED <<pg, indexVars, crawlVars, rateVars, crawlHist, indexHist,
                   rateHist>>

\* lines 465-487: build comments from json_pages and return
CommentsReturn ==
    /\ fc.pc = "extract"
    /\ fc' = [fc EXCEPT !.pc = "done", !.comments = Extract(fc.json_pages),
                        !.calls = <<>>]
    /\ UNCHANGED <<pg, indexVars, crawlVars, rateVars, crawlHist, indexHist,
                   rateHist>>

InitComments ==
    /\ \E d \in {NoFile} : IndexOpened(d)
    /\ CrawlIdle
    /\ RateIdle
    /\ IndexHistIdle
    /\ SeedsIdle
    /\ \E num \in CommentNums, total \in Totals : fc = CommentsEnter(num, total)

NextComments ==
    \/ CommentsPage
    \/ CommentsReturn

SpecComments == InitComments /\ [][NextComments]_vars

(* -------- SpecSeeds: fetch_all / fetch_search build the seed list ------ *)
\* numbers of hits the site may have for a search
ResultCounts ==
    {p * SearchPageSize + r : p \in 0..MaxResultPages, r \in {0, 1}}

\* values of -n: -1 (the default, 'all') or a positive number
Nums == {-1} \cup (ResultCounts \ {0})

\* the URLs on result page 'page' of a search with 'results' hits; a URL is
\* named by its rank among the hits.  startindex = (page_number - 1) * 30
SearchPage(results, page) ==
    LET startindex == (page - 1) * SearchPageSize
        n == IF results - startindex >= SearchPageSize THEN SearchPageSize
             ELSE IF results > startindex THEN results - startindex ELSE 0
    IN  [k \in 1..n |-> startindex + k]

\* _fetch_search_page: the URLs of the page, [] when all retries failed
FetchSearchPage(r_ok, served) == IF r_ok THEN served ELSE <<>>

\* the slice s[:e]: a negative e counts from the end
SliceTo(s, e) ==
    LET stop == IF e < 0 THEN (IF Len(s) + e < 0 THEN 0 ELSE Len(s) + e)
                ELSE (IF e > Len(s) THEN Len(s) ELSE e)
    IN  SubSeq(s, 1, stop)

\* math.ceil(a / b) for b > 0
CeilDiv(a, b) == -((-a) \div b)

\* fetch_all (lines 286-299) or fetch_search (lines 346-350, one search
\* string) entered.  passed: the URLs handed to fetch_urls so far; seen: the
\* URLs the fetched result pages held; last: length of the last page.
SeedsEnter(mode, num, results, page) ==
    [mode |-> mode, pc |-> "page", num |-> num, results |-> results,
     start_page |-> page, page |-> page, fetched |-> 0, urls |-> <<>>,
     passed |-> <<>>, seen |-> <<>>, last |-> -1]

\* fetch_all lines 300-316: one iteration of 'while fetch'
FetchAllPage ==
    /\ pg.pc = "page"
    /\ pg.mode = "all"
    /\ \E r_ok \in BOOLEAN :
          LET urls == FetchSearchPage(r_ok, SearchPage(pg.results, pg.page))
              g == [pg EXCEPT !.seen = @ \o urls, !.last = Len(urls)]
          IN  pg' = IF Len(urls) > 0
                    THEN IF pg.fetched + Len(urls) <= pg.num
                         THEN [g EXCEPT !.passed = @ \o urls,
                                        !.fetched = @ + Len(urls),
                                        !.page = @ + 1]
                         ELSE LET end == pg.num - pg.fetched
                              IN  [g EXCEPT !.passed = @ \o SliceTo(urls, end),
                                            !.fetched = @ + Len(SliceTo(urls, end)),
                                            !.page = @ + 1, !.pc = "done"]
                    ELSE [g EXCEPT !.pc = "done"]
    /\ UNCHANGED <<fc, indexVars, crawlVars, rateVars, crawlHist, indexHist,
                   rateHist>>

\* fetch_search lines 353-360: one iteration of 'for page in range(...)'
FetchSearchStep ==
    /\ pg.pc = "page"
    /\ pg.mode = "search"
    /\ \E r_ok \in BOOLEAN :
          LET num_pages == CeilDiv(pg.num, SearchPageSize)
              results == FetchSearchPage(r_ok, SearchPage(pg.results, pg.page))
              g == [pg EXCEPT !.urls = @ \o results, !.seen = @ \o results,
                              !.last = Len(results)]
          IN  pg' = IF Len(results) < SearchPageSize
                       \/ pg.page + 1 > pg.start_page + num_pages
                    THEN [g EXCEPT !.pc = "truncate"]
                    ELSE [g EXCEPT !.page = @ + 1]
    /\ UNCHANGED <<fc, indexVars, crawlVars, rateVars, crawlHist, indexHist,
                   rateHist>>

\* fetch_search lines 362-366: urls = urls[:args.num]; fetch_urls(urls)
FetchSearchCrawl ==
    /\ pg.pc = "truncate"
    /\ pg' = [pg EXCEPT !.urls = SliceTo(@, pg.num),
                        !.passed = SliceTo(pg.urls, pg.num), !.pc = "done"]
    /\ UNCHANGED <<fc, indexVars, crawlVars, rateVars, crawlHist, indexHist,
                   rateHist>>

InitSeeds ==
    /\ \E d \in {NoFile} : IndexOpened(d)
    /\ CrawlIdle
    /\ RateIdle
    /\ CommentsIdle
    /\ IndexHistIdle
    /\ \E mode \in {"all", "search"}, num \in Nums, results \in ResultCounts,
          page \in 1..2 :
          pg = SeedsEnter(mode, num, results, page)

NextSeeds ==
    \/ FetchAllPage
    \/ FetchSearchStep
    \/ FetchSearchCrawl

SpecSeeds == InitSeeds /\ [][NextSeeds]_vars

(* ------------------------------ properties ---------------------------- *)
\* C1: every future that has not completed was dispatched in the level the
\* orchestrator is dispatching now, and of two futures of different levels
\* the one of the earlier level has completed: levels never overlap.
C1_LevelsDoNotOverlap ==
    /\ \A i \in DOMAIN tasks :
          tasks[i].pc # "done" => (tasks[i].lvl = li /\ pc = "dispatch")
    /\ \A i, j \in DOMAIN tasks :
          tasks[i].lvl < tasks[j].lvl => tasks[i].pc = "done"

\* a fetch of level 2 is running, after level 1 fetched something
C1_Witness ==
    /\ li = 2
    /\ \E f \in fetchedOk : f[2] = 1
    /\ \E i \in DOMAIN tasks : tasks[i].lvl = 2 /\ tasks[i].pc = "loop_done"

\* C2: without force_all, no future exists for an Identifier whose fetch
\* returned a record in an earlier level.
C2_NoRefetchInLaterLevel ==
    ~force_all =>
        \A i \in DOMAIN tasks : \A f \in fetchedOk :
            f[1] = tasks[i].id => tasks[i].lvl <= f[2]

\* level 2 has just passed over an Identifier fetched in level 1
C2_Witness ==
    /\ ~force_all
    /\ li = 2
    /\ pos > 1
    /\ <<url_to_id(stack[2][pos - 1]), 1>> \in fetchedOk
    /\ \A i \in DOMAIN tasks : tasks[i].id # url_to_id(stack[2][pos - 1])

\* C3 (as claimed): a fetch whose every attempt failed ends without raising,
\* and the crawl never aborts when exhausted retries are the only failures.
C3_ExhaustedFetchIsContained ==
    /\ \A i \in DOMAIN tasks :
          tasks[i].cause = "exhausted" => tasks[i].result # "exception"
    /\ pc = "crashed" =>
          \E i \in DOMAIN tasks :
             tasks[i].result = "exception" /\ tasks[i].cause # "exhausted"

\* C4 (as claimed): a fetch whose page the parser rejected ends without
\* raising, and the crawl never aborts when parse errors are the only failures.
C4_ParseErrorIsContained ==
    /\ \A i \in DOMAIN tasks :
          tasks[i].cause = "parse" => tasks[i].result # "exception"
    /\ pc = "crashed" =>
          \E i \in DOMAIN tasks :
             tasks[i].result = "exception" /\ tasks[i].cause # "parse"

\* position of the first 2xx answer of the transport, 0 if there is none
FirstOk(resp) ==
    LET S == {k \in DOMAIN resp : resp[k]}
    IN  IF S = {} THEN 0 ELSE CHOOSE k \in S : \A j \in S : k <= j

\* C5: when the retry loop of fetch_url ends it has made exactly
\* maxFetchAttempts GETs if the transport never answered 2xx, and exactly k
\* GETs if the k-th answer was the first 2xx; never more than maxFetchAttempts.
C5_RetryLoopAttempts ==
    \A i \in DOMAIN tasks :
        tasks[i].pc = "loop_done" =>
            LET k == FirstOk(tasks[i].resp)
            IN  /\ tasks[i].gets <= maxFetchAttempts
                /\ k = 0 => (tasks[i].gets = maxFetchAttempts /\ ~tasks[i].r_ok)
                /\ k > 0 => (tasks[i].gets = k /\ tasks[i].r_ok)

\* one fetch has exhausted its attempts, another succeeded on a retry
C5_Witness ==
    \E i, j \in DOMAIN tasks :
        /\ tasks[i].pc = "loop_done" /\ ~tasks[i].r_ok
        /\ tasks[i].gets = maxFetchAttempts
        /\ tasks[j].pc = "loop_done" /\ tasks[j].r_ok
        /\ tasks[j].gets > 1 /\ tasks[j].gets < maxFetchAttempts

SeedsAllKnown ==
    /\ pc # "idle"
    /\ ~force_all
    /\ \A k \in DOMAIN stack[1] : url_to_id(stack[1][k]) \in Range(index0)

\* C6: without force_all, a crawl whose seeds are all in the Index as
\* opened submits nothing, adds no level, leaves Index and log as they
\* were, never aborts, keeps running until Terminal and ends with
\* total_fetched = 0.
C6_KnownSeedsFetchNothing ==
    SeedsAllKnown =>
        /\ dispatched = 0
        /\ tasks = <<>>
        /\ Len(stack) = 1
        /\ index = index0
        /\ buf = <<>>
        /\ total_fetched = 0
        /\ pc # "crashed"
        /\ pc # "terminal" => ENABLED Next

\* such a crawl over MaxSeeds seeds has reached Terminal
C6_Witness ==
    /\ SeedsAllKnown
    /\ Len(stack[1]) = MaxSeeds
    /\ pc = "terminal"

\* the Identifiers the log holds: the file plus what is still buffered
LogLines == ReadIndex(disk.text \o buf)

\* C7 (as claimed): whatever the interleaving of the workers' add calls,
\* no Identifier is twice in the in-memory Index or twice in the log.
C7_NoDuplicateUnderConcurrency ==
    \A x \in Ids : Count(index, x) <= 1 /\ Count(LogLines, x) <= 1

\* C8 (as claimed): with a fixed rate limit d, consecutive returns of
\* wait() are at least d apart, whoever the callers are.
C8_ReturnsSpaced ==
    rate.lo = rate.hi =>
        \A k \in 2..Len(returns) : returns[k] - returns[k - 1] >= rate.lo

\* C9: after add calls and close(), the Index reopened from the same path
\* holds exactly the Identifiers that were in memory at the close.
C9_ReopenYieldsSameSet ==
    lastOp.op = "reopen" => Range(index) = memAtClose

\* reopened after two Identifiers were added that the file did not hold
C9_Witness ==
    /\ lastOp.op = "reopen"
    /\ Cardinality(Range(index) \ Range(index0)) >= 2

\* C10: after add(x), another add(x) changes nothing (memory, len, pending
\* and written log); and add(x) on an Index that held x changed nothing.
C10_AddIdempotent ==
    lastOp.op = "add" =>
        /\ lastOp.arg \in Range(index)
        /\ IndexAdd([index |-> index, buf |-> buf, bom |-> bomPending], lastOp.arg)
              = [index |-> index, buf |-> buf, bom |-> bomPending]
        /\ lastOp.had => IxState = lastOp.pre
        /\ lastOp.had => Len(index) = Len(lastOp.pre.index)

\* add(x) was just called on an Index that already held x, added earlier
C10_Witness ==
    /\ lastOp.op = "add"
    /\ lastOp.had
    /\ lastOp.arg \notin Range(index0)

\* C11 (as claimed): once an interrupted process has closed the Index and
\* exited, every Identifier of the in-memory Index is in index.dat.
C11_NothingLostOnInterrupt ==
    pc = "exited" => Range(index) \subseteq Range(ReadIndex(disk.text))

\* C12 (as claimed): in every run _close_index flushes, fsyncs and closes
\* the index file at most once, and it has done so when the run has ended,
\* at Terminal as well as after an interrupt.
C12_ClosedExactlyOnce ==
    /\ closes <= 1
    /\ pc \in {"terminal", "exited"} => closes = 1

\* C13 (as claimed): once SIGINT has been received _shutdown is set, and a
\* worker whose fetch_url returned after the signal is never inside
\* index.add, never fails on the closed index file and never fails writing
\* its record.
C13_ShutdownStopsWorkers ==
    /\ Interrupted(pc) => shutdown
    /\ \A i \in DOMAIN tasks :
          tasks[i].late =>
              /\ tasks[i].pc \notin {"add_append", "add_write"}
              /\ tasks[i].cause \notin {"closed", "persist"}

\* the Identifiers of the first k seed URLs
SeedIds(k) == {url_to_id(stack[1][j]) : j \in 1..k}

\* C14: with index_only, fetch_urls submits no future (hence no GET) and
\* never waits on the rate limiter, adds no level, goes from the add loop
\* straight to Terminal, and after k seeds the Index (in memory and in the
\* log) is what it was when opened plus the Identifiers of those k seeds,
\* each once; at Terminal k is the whole seed list.
C14_IndexOnlyAddsSeeds ==
    index_only =>
        /\ pc \in {"index_only", "terminal"}
        /\ dispatched = 0 /\ tasks = <<>> /\ succeeded = 0
        /\ last_request_time = 0
        /\ Len(stack) = 1 /\ total_fetched = 0
        /\ pc = "terminal" => pos = Len(stack[1]) + 1
        /\ Range(index) = Range(index0) \cup SeedIds(pos - 1)
        /\ Len(index) = Len(index0) + Cardinality(SeedIds(pos - 1) \ Range(index0))
        /\ Range(LogLines) = Range(index)

\* an index-only run over MaxSeeds seeds, one of them known to the Index as
\* opened and one not, has reached Terminal
C14_Witness ==
    /\ index_only
    /\ pc = "terminal"
    /\ Len(stack[1]) = MaxSeeds
    /\ SeedIds(MaxSeeds) \ Range(index0) # {}
    /\ SeedIds(MaxSeeds) \cap Range(index0) # {}

\* the crawl stays within recursion_depth + 1 levels
LevelsBounded ==
    /\ Len(stack) <= recursion_depth + 1
    /\ li <= Len(stack)
    /\ \A i \in DOMAIN tasks : tasks[i].lvl <= recursion_depth + 1
    /\ \A f \in fetchedOk : f[2] <= recursion_depth + 1
    /\ recursion_depth = 0 =>
          \A i \in DOMAIN tasks : id_to_url(tasks[i].id) \in Range(stack[1])

\* C15: a crawl never has more than recursion_depth + 1 levels, with depth
\* 0 every future is for a seed, and the crawl comes to an end, whatever
\* force_all and the related lists are.
C15_DepthBoundsLevels ==
    /\ []LevelsBounded
    /\ <>(pc \in {"terminal", "crashed"})

\* with force_all, the last permitted level has been collected, one of its
\* pages names a seed as related (a cycle), and no level is to be added
C15_Witness ==
    /\ force_all
    /\ recursion_depth = MaxDepth
    /\ pc = "level_done"
    /\ li = MaxDepth + 1
    /\ \E k \in DOMAIN related_urls : related_urls[k] \in Range(stack[1])
    /\ ~ShouldExpand(stack, recursion_depth, related_urls)

\* C16 (as claimed): opening an Index never fails, whether index.dat and
\* its folder exist or not, and leaves both the folder and the file in place.
C16_AbsentLogOpensEmpty ==
    /\ lastOp.op # "open_raised"
    /\ dirExists
    /\ disk.exists

\* the [offset, n] of every page fetched with a 2xx status and a JSON body
RECURSIVE FetchedOkPages(_, _, _)
FetchedOkPages(fetched, num, total) ==
    IF fetched = <<>> THEN <<>>
    ELSE (IF fetched[1].ok
          THEN <<[offset |-> fetched[1].offset,
                  n |-> Served(num, total, fetched[1].offset).n]>>
          ELSE <<>>) \o FetchedOkPages(Tail(fetched), num, total)

\* C17: when the first page of comments was fetched, fetch_comments does not
\* raise, whatever happens to the later pages, and what it returns is the
\* items of every page it fetched, in order.
C17_EarlierPagesKept ==
    (fc.pc # "idle" /\ fc.fetched # <<>> /\ fc.fetched[1].ok) =>
        /\ fc.pc # "raised"
        /\ fc.pc = "done" => fc.comments = FetchedOkPages(fc.fetched, fc.num, fc.total)

\* of 1200 comments the page at offset 0 was fetched, the page at offset 500
\* failed, and fetch_comments has returned the 500 comments of the first page
C17_Witness ==
    /\ fc.pc = "done"
    /\ fc.num < 0
    /\ fc.total = 2 * PageSize + 200
    /\ Len(fc.fetched) >= 2
    /\ fc.fetched[1].ok
    /\ ~fc.fetched[2].ok /\ fc.fetched[2].offset = PageSize
    /\ fc.comments = <<[offset |-> 0, n |-> PageSize]>>

\* C18 (as claimed): a record that cannot be written is lost and nothing
\* more: the crawl never aborts when failed record writes of fetched
\* Identifiers are the only failures.
C18_WriteFailureIsContained ==
    pc = "crashed" =>
        \E i \in DOMAIN tasks :
            tasks[i].result = "exception" /\ tasks[i].cause # "persist"

\* C19 (as claimed): the total reported at Terminal is the number of
\* fetch_url calls of the crawl that returned a record.
C19_TotalCountsEveryFetch ==
    pc = "terminal" => total_fetched = succeeded

\* in the calls of one thread, every get comes right after a wait
WaitPrecedesGets(calls) ==
    \A k \in DOMAIN calls : calls[k] = "get" => (k > 1 /\ calls[k - 1] = "wait")

\* C20 (as claimed): every requests.get of a retry loop, in a worker's
\* fetch_url as in fetch_comments, comes right after a _wait_rate_limit
\* call of the same thread.
C20_WaitBeforeEveryGet ==
    /\ \A i \in DOMAIN tasks : WaitPrecedesGets(tasks[i].calls)
    /\ fc.pc \notin {"idle", "done"} => WaitPrecedesGets(fc.calls)

\* C21 (as claimed): with -n left at -1, every URL of every result page
\* that fetch_all or fetch_search fetched is handed to fetch_urls, and
\* fetch_all stops only on a page without results.
C21_AllMeansNoTruncation ==
    (pg.pc = "done" /\ pg.num = -1) =>
        /\ pg.passed = pg.seen
        /\ pg.mode = "all" => pg.last = 0

\* number of comments in a list of [offset, n] runs
RECURSIVE CommentCount(_)
CommentCount(comments) ==
    IF comments = <<>> THEN 0 ELSE comments[1].n + CommentCount(Tail(comments))

\* C22 (as claimed): with a positive comment count N fetch_comments returns
\* at most N comments whatever total the recipe declares, and with N = 0 it
\* returns the empty list without a request.
C22_AtMostNumComments ==
    /\ (fc.pc = "done" /\ fc.num > 0) => CommentCount(fc.comments) <= fc.num
    /\ (fc.pc # "idle" /\ fc.num = 0) =>
          (fc.pc = "done" /\ fc.comments = <<>> /\ fc.fetched = <<>>)

\* C23 (as claimed): without force_all, no two futures of one level are for
\* the same Identifier, however often the level's list names it.
C23_RepeatsFilteredAtDispatch ==
    ~force_all =>
        \A i, j \in DOMAIN tasks :
            (i # j /\ tasks[i].lvl = tasks[j].lvl) => tasks[i].id # tasks[j].id

\* the step out of a completed level opens the next level, made of the
\* related URLs collected
StartsNextLevel ==
    /\ pc' = "dispatch"
    /\ li' = li + 1
    /\ stack' = Append(stack, related_urls)

\* the step out of a completed level ends the crawl
GoesToTerminal ==
    /\ pc' = "terminal"
    /\ stack' = stack

\* C24 (amended): when the level at depth c = li - 1 has completed, the next
\* step starts level c + 1 if c < recursion_depth and related URLs were
\* collected, and goes to Terminal otherwise.
C24_NextLevelBelowDepth ==
    [][pc = "level_done" =>
          IF li - 1 < recursion_depth /\ related_urls # <<>>
          THEN StartsNextLevel ELSE GoesToTerminal]_vars

\* C24 (as claimed): the same with c <= recursion_depth.
C24_NextLevelUpToDepth ==
    [][pc = "level_done" =>
          IF li - 1 <= recursion_depth /\ related_urls # <<>>
          THEN StartsNextLevel ELSE GoesToTerminal]_vars

\* level 1 has been opened from the related URLs of the seed level, and the
\* crawl ended after it although it collected related URLs as well
C24_Witness ==
    /\ pc = "terminal"
    /\ recursion_depth = 1
    /\ Len(stack) = 2
    /\ \E f \in fetchedOk : f[2] = 2
    /\ total_fetched >= 2

\* C25 (as claimed): a caller entering wait() with the fixed limit d, e
\* after the last request, sleeps max(0, d - e), not at all when e >= d, and
\* on return sets the last-request time to the current time.
C25_SleepsRemainder ==
    [][\A c \in DOMAIN callers :
          /\ (rate.lo = rate.hi /\ callers[c].pc = "idle" /\ callers'[c].pc # "idle") =>
                LET d == rate.lo
                    e == now - last_request_time
                IN  /\ callers'[c].wake - now = (IF d - e > 0 THEN d - e ELSE 0)
                    /\ e >= d => callers'[c].pc = "update"
          /\ (callers[c].pc = "update" /\ callers'[c].pc = "idle") =>
                last_request_time' = now']_vars

\* C26 (as claimed): once the fetch of a comment page has failed all its
\* retries, no request for a later offset is issued: a page whose response
\* was not ok can only be the last one requested.
C26_FailedPageStopsPaging ==
    fc.pc # "idle" =>
        \A k \in 1..(Len(fc.fetched) - 1) : fc.fetched[k].r_ok

\* C29 (as claimed): when the first comment page (offset 0) fails all
\* retries or is not JSON, fetch_comments does not raise and returns the
\* empty list.
C29_FirstPageFailureContained ==
    (fc.pc # "idle" /\ fc.fetched # <<>> /\ ~fc.fetched[1].ok) =>
        /\ fc.pc # "raised"
        /\ fc.pc = "done" => fc.comments = <<>>

\* Identifiers of the fetch_url calls that returned a record: a 2xx
\* response, parsed
FetchedIds == {f[1] : f \in fetchedOk}

\* Identifiers the crawl added to the Index
AddedIds == Range(index) \ Range(index0)

\* C27: outside index-only mode, an Identifier is added to the Index or has
\* a record persisted during the crawl only if a fetch of its page got a 2xx
\* response and parsed; nothing is added or written for a failed fetch or
\* parse.
C27_OnlyFetchedAddedOrPersisted ==
    ~index_only =>
        /\ AddedIds \subseteq FetchedIds
        /\ persisted \subseteq FetchedIds

\* an interrupted crawl where one fetch failed its parse and one its
\* requests, neither Identifier added or persisted, and a third succeeded
\* and was both
C27_Witness ==
    /\ ~index_only
    /\ \E i, j \in DOMAIN tasks :
          /\ tasks[i].pc = "done" /\ tasks[i].cause \in {"parse", "exhausted"}
          /\ tasks[i].id \notin AddedIds \cup persisted
          /\ tasks[j].pc = "done" /\ tasks[j].cause = "none"
          /\ tasks[j].id \in AddedIds \cap persisted

\* C28 (as claimed): whenever a worker has finished handling an Identifier
\* whose record it fetched, the Identifier was added to the Index only if
\* its record has been persisted.
C28_IndexNotAheadOfRecords ==
    \A i \in DOMAIN tasks :
        (tasks[i].pc = "done" /\ tasks[i].data.ok /\ tasks[i].data.id \in AddedIds)
            => tasks[i].data.id \in persisted

====
